---- MODULE Spec2Model ----
(***************************************************************************)
(* A model of cpcp (src/cpcp.go): the driver CPCP, the copier workers, the *)
(* two reporter sinks, the task pool / work queue channels, the WaitGroup  *)
(* and the part of the filesystem the program reads and writes.            *)
(*                                                                         *)
(* Paths are sequences of components (<<"t","d","a">> is t/d/a).  The      *)
(* source tree is fixed (SrcFS); the destination tree is the variable      *)
(* dstfs.  Filesystem operations may fail: deterministically where the     *)
(* state of the tree decides it, and by an injected fault otherwise.       *)
(***************************************************************************)
EXTENDS Integers, Sequences, FiniteSets, TLC

\* ------------------------------------------------------------------ bounds
\* Largest number of copier workers (= capacity of both task channels).
MaxParallelTasks == 2
\* Entries returned by one Readdir call.
ReaddirBuffer == 2
\* Largest number of injected filesystem faults in one run.
MaxFaults == 1

\* ------------------------------------------------------- program constants
messageBuffer == 1000
errBuffer == 1000
\* errCount is a uint32, kept as two 16-bit halves
HalfWord == 65536

\* ------------------------------------------------------------------- paths
\* path.Base: the last element of the path, "." for the empty path.
Base(p) == IF Len(p) = 0 THEN "." ELSE p[Len(p)]

\* path.Clean, for the paths of the model: "." elements are dropped.
Clean(p) == SelectSeq(p, LAMBDA c : c # ".")

\* path.Join(d, name)
Join(d, name) == Clean(Append(d, name))

\* the directory a path lies in
Dir(p) == IF Len(p) = 0 THEN <<>> ELSE SubSeq(p, 1, Len(p) - 1)

\* ------------------------------------------------------------ mode bits
\* a & b on permission bits (9 bits)
RECURSIVE BitAndN(_, _, _)
BitAndN(a, b, n) ==
    IF n = 0 THEN 0
    ELSE (IF a % 2 = 1 /\ b % 2 = 1 THEN 1 ELSE 0)
         + 2 * BitAndN(a \div 2, b \div 2, n - 1)

BitAnd(a, b) == BitAndN(a, b, 9)

\* a &^ b
BitClear(a, b) == a - BitAnd(a, b)

\* ------------------------------------------------------------ source tree
\*   d/        0775   entries a, l, s
\*   d/a       0644   regular file
\*   d/l              symbolic link to "a"
\*   d/s/      0750   entries g
\*   d/s/g     0600   regular file
\*   e/        0755   entries x, y
\*   e/x       0664   regular file
\*   e/y              symbolic link to "x"
\*   f         0640   regular file
\*   lf               symbolic link to "f"
\*   v/        0755   entries p, q, r
\*   v/p       0644   regular file
\*   v/q              symbolic link to "p"
\*   v/r              symbolic link to "p"
SrcFS ==
    (<<"d">>           :> [kind |-> "dir",     mode |-> 509, entries |-> <<"a", "l", "s">>, target |-> <<>>])
 @@ (<<"d", "a">>      :> [kind |-> "file",    mode |-> 420, entries |-> <<>>, target |-> <<>>])
 @@ (<<"d", "l">>      :> [kind |-> "symlink", mode |-> 511, entries |-> <<>>, target |-> <<"a">>])
 @@ (<<"d", "s">>      :> [kind |-> "dir",     mode |-> 488, entries |-> <<"g">>, target |-> <<>>])
 @@ (<<"d", "s", "g">> :> [kind |-> "file",    mode |-> 384, entries |-> <<>>, target |-> <<>>])
 @@ (<<"e">>           :> [kind |-> "dir",     mode |-> 493, entries |-> <<"x", "y">>, target |-> <<>>])
 @@ (<<"e", "x">>      :> [kind |-> "file",    mode |-> 436, entries |-> <<>>, target |-> <<>>])
 @@ (<<"e", "y">>      :> [kind |-> "symlink", mode |-> 511, entries |-> <<>>, target |-> <<"x">>])
 @@ (<<"f">>           :> [kind |-> "file",    mode |-> 416, entries |-> <<>>, target |-> <<>>])
 @@ (<<"lf">>          :> [kind |-> "symlink", mode |-> 511, entries |-> <<>>, target |-> <<"f">>])
 @@ (<<"v">>           :> [kind |-> "dir",     mode |-> 493, entries |-> <<"p", "q", "r">>, target |-> <<>>])
 @@ (<<"v", "p">>      :> [kind |-> "file",    mode |-> 420, entries |-> <<>>, target |-> <<>>])
 @@ (<<"v", "q">>      :> [kind |-> "symlink", mode |-> 511, entries |-> <<>>, target |-> <<"p">>])
 @@ (<<"v", "r">>      :> [kind |-> "symlink", mode |-> 511, entries |-> <<>>, target |-> <<"p">>])

NoPath == <<"?">>

\* Resolve path p, given as the components still to walk from the resolved
\* directory at; symbolic links are followed in every component but the
\* last, and in the last one when follow is set.
RECURSIVE Walk(_, _, _, _)
Walk(at, rest, follow, fuel) ==
    IF rest = <<>> THEN at
    ELSE LET nxt == Append(at, Head(rest)) IN
         IF nxt \notin DOMAIN SrcFS \/ fuel = 0 THEN NoPath
         ELSE IF SrcFS[nxt].kind = "symlink" /\ (Len(rest) > 1 \/ follow)
              THEN Walk(at, SrcFS[nxt].target \o Tail(rest), follow, fuel - 1)
              ELSE Walk(nxt, Tail(rest), follow, fuel)

NoFi == [ok |-> FALSE, kind |-> "none", mode |-> 0, name |-> ""]

FileInfoAt(c, name) ==
    IF c = NoPath \/ c \notin DOMAIN SrcFS THEN NoFi
    ELSE [ok |-> TRUE, kind |-> SrcFS[c].kind, mode |-> SrcFS[c].mode, name |-> name]

\* os.Lstat / os.Stat on a source path
Lstat(p) == FileInfoAt(Walk(<<>>, p, FALSE, 4), Base(p))
Stat(p) == FileInfoAt(Walk(<<>>, p, TRUE, 4), Base(p))

\* the entries of the directory opened at p, in Readdir order, as FileInfos
DirEntries(p) ==
    LET c == Walk(<<>>, p, TRUE, 4) IN
    IF c = NoPath \/ SrcFS[c].kind # "dir" THEN <<>>
    ELSE [i \in 1..Len(SrcFS[c].entries) |->
             FileInfoAt(Append(c, SrcFS[c].entries[i]), SrcFS[c].entries[i])]

\* what os.Open(p) followed by reading gives: the file's identity
Content(p) == Walk(<<>>, p, TRUE, 4)

\* Readlink that gives the path the link resolves to in place of its target
Readlink_Resolved(p) ==
    LET c == Walk(<<>>, p, FALSE, 4) IN
    IF c = NoPath \/ SrcFS[c].kind # "symlink" THEN NoPath ELSE Walk(<<>>, p, TRUE, 4)

\* os.Readlink(p): the target string, or NoPath when p is no symbolic link
Readlink(p) ==
    LET c == Walk(<<>>, p, FALSE, 4) IN
    IF c = NoPath \/ SrcFS[c].kind # "symlink" THEN NoPath ELSE SrcFS[c].target

\* ------------------------------------------------------- destination tree
\* dstfs maps every existing destination path to [kind, mode, data]; the
\* empty path (the working directory) always exists and is a directory.
DstIsDir(fs, p) == p = <<>> \/ (p \in DOMAIN fs /\ fs[p].kind = "dir")

DstExists(fs, p) == p = <<>> \/ p \in DOMAIN fs

Put(fs, p, e) == [q \in DOMAIN fs \cup {p} |-> IF q = p THEN e ELSE fs[q]]

\* the error the state of the tree forces on os.Mkdir(p, m), "nil" if none
MkdirErr(fs, p) ==
    IF DstExists(fs, p) THEN "EEXIST"
    ELSE IF ~DstIsDir(fs, Dir(p)) THEN "ENOENT"
    ELSE "nil"

\* mkdir(2) clears the bits of the process umask from the requested mode
MkdirMode(m, processUmask) == BitClear(m, processUmask)

\* os.Chmod(p, m)
ChmodErr(fs, p) == IF p \in DOMAIN fs THEN "nil" ELSE "ENOENT"

\* os.Create(p): O_RDWR|O_CREATE|O_TRUNC, mode 0666 before umask
CreateErr(fs, p) ==
    IF DstIsDir(fs, p) THEN "EISDIR"
    ELSE IF ~DstIsDir(fs, Dir(p)) THEN "ENOENT"
    ELSE "nil"

CreateMode(fs, p, processUmask) ==
    IF p \in DOMAIN fs THEN fs[p].mode ELSE BitClear(438, processUmask)

\* os.Symlink(target, p)
SymlinkErr(fs, p) ==
    IF DstExists(fs, p) THEN "EEXIST"
    ELSE IF ~DstIsDir(fs, Dir(p)) THEN "ENOENT"
    ELSE "nil"

\* the destinations a run may start from; the destination argument is t
DstArg == <<"t">>

DstInit(which) ==
    CASE which = "absent" -> <<>>
      [] which = "dir" -> (DstArg :> [kind |-> "dir", mode |-> 493, data |-> <<>>])
      [] which = "file" -> (DstArg :> [kind |-> "file", mode |-> 420, data |-> <<"old">>])
      [] which = "dirWithD" ->
             (DstArg :> [kind |-> "dir", mode |-> 493, data |-> <<>>])
          @@ (<<"t", "d">> :> [kind |-> "dir", mode |-> 448, data |-> <<>>])

\* ------------------------------------------------------------- the state
VARIABLES
    cfg,            \* config: verbosity, noDereference, recursive, parallelTasks, umask, preserveMode
    srcs,           \* args[:len(args)-1]
    dst,            \* args[len(args)-1], rewritten by the single-source branch
    dstfs,          \* the destination tree
    faultsLeft,     \* filesystem faults the environment may still inject
    msgs, msgsClosed, msgsDone,
    errs, errsClosed, errsDone,
    errCount,
    wg,             \* the WaitGroup's counter
    copyTasks,      \* channel of task objects: the work queue
    freeCopyTasks,  \* channel of task objects: the pool
    tasks,          \* the fields of each preallocated copyTask
    dpc, di, dsrcfi, dct, finalErrCount, result,   \* the driver
    pc, localTasks, cur, held, fis, ferr, lpos, fds, target,  \* the copiers
    panicked,       \* a send on a closed channel or a negative WaitGroup counter
    hist            \* history of the run (not program state)

cfgVars == <<cfg, srcs>>
sinkVars == <<msgs, msgsClosed, msgsDone, errs, errsClosed, errsDone, errCount>>
driverVars == <<dpc, di, dsrcfi, dct, finalErrCount, result, dst>>
workerVars == <<pc, localTasks, cur, held, fis, ferr, lpos, fds, target>>
vars == <<cfg, srcs, dst, dstfs, faultsLeft, msgs, msgsClosed, msgsDone,
          errs, errsClosed, errsDone, errCount, wg, copyTasks, freeCopyTasks,
          tasks, dpc, di, dsrcfi, dct, finalErrCount, result,
          pc, localTasks, cur, held, fis, ferr, lpos, fds, target,
          panicked, hist>>

Workers == 1..cfg.parallelTasks

EmptyTask == [src |-> <<>>, dst |-> <<>>, srcfi |-> NoFi]

\* the invocations a run is started with
Scenario(ss, di0, r, pm, nd, v, n, fl) ==
    [srcs |-> ss, dstInit |-> di0, recursive |-> r, preserveMode |-> pm,
     noDereference |-> nd, verbosity |-> v, parallelTasks |-> n, umask |-> 18,
     faults |-> fl]

Scenarios ==
    \* a recursive copy of the tree d, without faults
    { Scenario(<< <<"d">> >>, di0, TRUE, pm, FALSE, 0, n, 0)
        : di0 \in {"absent", "dirWithD"}, pm \in BOOLEAN, n \in 1..MaxParallelTasks }
  \cup
    \* the same with one worker and faults
    { Scenario(<< <<"d">> >>, "absent", TRUE, pm, FALSE, 0, 1, MaxFaults)
        : pm \in BOOLEAN }
  \cup
    \* a recursive copy of the smaller tree e, with faults
    { Scenario(<< <<"e">> >>, "dir", TRUE, pm, FALSE, 0, n, MaxFaults)
        : pm \in BOOLEAN, n \in 1..MaxParallelTasks }
  \cup
    \* the tree d with progress lines
    { Scenario(<< <<"d">> >>, "dir", TRUE, FALSE, TRUE, 1, 1, 0) }
  \cup
    \* the flat directory v with progress lines
    { Scenario(<< <<"v">> >>, "dir", TRUE, FALSE, TRUE, 1, n, 0)
        : n \in 1..MaxParallelTasks }
  \cup
    \* single sources of every kind, with and without -P
    { Scenario(<< s >>, di0, FALSE, pm, nd, 0, 1, fl)
        : s \in {<<"f">>, <<"lf">>, <<"nx">>, <<"d">>},
          di0 \in {"absent", "dir", "file"}, pm \in BOOLEAN, nd \in BOOLEAN,
          fl \in {0, MaxFaults} }
  \cup
    \* several sources
    { Scenario(ss, di0, FALSE, FALSE, nd, 0, n, fl)
        : ss \in { << <<"nx">>, <<"ny">> >>, << <<"f">>, <<"nx">>, <<"d">> >>,
                   << <<"lf">>, <<"d", "a">>, <<"f">> >> },
          di0 \in {"absent", "dir", "file"}, nd \in BOOLEAN,
          n \in 1..MaxParallelTasks, fl \in {0, MaxFaults} }

Hist0 ==
    [errSent |-> 0,          \* lines sent on errs
     drvErrs |-> <<>>,       \* the driver's error lines: [i, kind]
     wrkErrs |-> 0,          \* the workers' error lines
     opFails |-> 0,          \* failed filesystem operations of the workers
     statFaults |-> 0,       \* failed os.Stat calls on the destination
     rootTasks |-> <<>>,     \* the tasks the driver submitted: [i, src, dst]
     adds |-> 0, dones |-> 0,  \* calls of wg.Add(1) and wg.Done()
     added |-> <<>>,         \* per source path: tasks counted
     finished |-> <<>>,      \* per source path: tasks decremented
     failed |-> {},          \* source paths of tasks with a failed operation
     mkdirTried |-> {},      \* destinations on which os.Mkdir was called
     attempted |-> {},       \* destinations a worker tried to create
     msgSent |-> <<>>,       \* per [src, dst]: progress lines sent
     buffered |-> 0,         \* tasks appended to a local buffer
     unlisted |-> {},        \* source directories whose open or listing failed
     childDsts |-> {},       \* destinations of the tasks counted for directory entries
     tasksDone |-> {},       \* the tasks decremented: [src, dst, srcfi]
     dstWas |-> "absent"]    \* the destination tree the run started from

Init ==
    \E sc \in Scenarios :
        /\ cfg = [verbosity |-> sc.verbosity, noDereference |-> sc.noDereference,
                  recursive |-> sc.recursive, parallelTasks |-> sc.parallelTasks,
                  umask |-> sc.umask, preserveMode |-> sc.preserveMode]
        /\ srcs = sc.srcs
        /\ dst = DstArg
        /\ dstfs = DstInit(sc.dstInit)
        /\ faultsLeft = sc.faults
        /\ msgs = <<>> /\ msgsClosed = FALSE /\ msgsDone = FALSE
        /\ errs = <<>> /\ errsClosed = FALSE /\ errsDone = FALSE
        /\ errCount = [lo |-> 0, hi |-> 0]
        /\ wg = 0
        /\ copyTasks = <<>>
        /\ freeCopyTasks = [i \in 1..sc.parallelTasks |-> i]
        /\ tasks = [i \in 1..sc.parallelTasks |-> EmptyTask]
        /\ dpc = "statdst" /\ di = 1 /\ dsrcfi = NoFi /\ dct = 0
        /\ finalErrCount = [lo |-> 0, hi |-> 0] /\ result = "running"
        /\ pc = [w \in 1..sc.parallelTasks |-> "loop"]
        /\ localTasks = [w \in 1..sc.parallelTasks |-> <<>>]
        /\ cur = [w \in 1..sc.parallelTasks |-> EmptyTask]
        /\ held = [w \in 1..sc.parallelTasks |-> 0]
        /\ fis = [w \in 1..sc.parallelTasks |-> <<>>]
        /\ ferr = [w \in 1..sc.parallelTasks |-> "nil"]
        /\ lpos = [w \in 1..sc.parallelTasks |-> 0]
        /\ fds = [w \in 1..sc.parallelTasks |-> 0]
        /\ target = [w \in 1..sc.parallelTasks |-> <<>>]
        /\ panicked = FALSE
        /\ hist = [Hist0 EXCEPT !.dstWas = sc.dstInit]

\* ---------------------------------------------------------------- helpers
\* the outcomes of a filesystem operation: the error the tree forces, or
\* success or an injected fault
Outcomes(forced) ==
    IF forced # "nil" THEN {forced}
    ELSE {"nil"} \cup (IF faultsLeft > 0 THEN {"EIO"} ELSE {})

FaultsAfter(forced, e) == IF forced = "nil" /\ e # "nil" THEN faultsLeft - 1 ELSE faultsLeft

Bump(f, k) ==
    [q \in DOMAIN f \cup {k} |-> IF q \in DOMAIN f THEN (IF q = k THEN f[q] + 1 ELSE f[q]) ELSE 1]

Count(f, k) == IF k \in DOMAIN f THEN f[k] ELSE 0

\* atomic.AddUint32(&errCount, 1): the sum modulo 2^32
AddUint32(c) ==
    [lo |-> (c.lo + 1) % HalfWord,
     hi |-> IF c.lo + 1 = HalfWord THEN (c.hi + 1) % HalfWord ELSE c.hi]

\* finalErrCount > 0
Positive(c) == c.lo # 0 \/ c.hi # 0

\* the number a uint32 stands for
Value(c) == c.hi * HalfWord + c.lo

\* ------------------------------------------------------------- the driver
\* a panic ends the process, and so does the driver's return
Running == ~panicked /\ dpc # "done"

\* RootDst with the whole source path in place of its base name
RootDst_WholePath(d, src) == Clean(d \o src)

\* the destination of a root task below an existing directory (lines 81, 125)
RootDst(d, src) == Join(d, Base(src))

\* a test of line 105 that only asks whether the destination exists
BadTarget_OnlyMissing(r) == r = "absent"

\* line 105: os.IsNotExist(err) || !dstfi.IsDir(), on the outcome of os.Stat(dst)
BadTarget(r) == r = "absent" \/ r # "dir"

\* the test of lines 91 and 119 left out
Omitted_Never(fi) == FALSE

\* lines 91 and 119: srcfi.IsDir() && !cfg.recursive
Omitted(fi) == fi.kind = "dir" /\ ~cfg.recursive

\* the driver's move to the next source, or to wg.Wait()
DriverAdvance ==
    IF di < Len(srcs)
    THEN /\ di' = di + 1
         /\ dpc' = "statsrc"
    ELSE /\ di' = di
         /\ dpc' = "wait"

\* DriverStatDst where a single source is always put below the destination
DriverStatDst_JoinAlways ==
    /\ Running
    /\ dpc = "statdst"
    /\ \E r \in {IF dst \in DOMAIN dstfs THEN dstfs[dst].kind ELSE "absent"}
                  \cup (IF faultsLeft > 0 THEN {"error"} ELSE {}) :
        LET single == Len(srcs) = 1
            line == IF single THEN <<>>
                    ELSE IF r = "error" THEN << [kind |-> "stat", path |-> dst] >>
                    ELSE IF BadTarget(r) THEN << [kind |-> "target", path |-> dst] >>
                    ELSE <<>>
        IN  /\ Len(errs) + Len(line) <= errBuffer
            /\ faultsLeft' = IF r = "error" THEN faultsLeft - 1 ELSE faultsLeft
            /\ dst' = IF single THEN RootDst(dst, srcs[1]) ELSE dst
            /\ dpc' = IF single \/ line = <<>> THEN "statsrc" ELSE "wait"
            /\ errs' = errs \o line
            /\ panicked' = (line # <<>> /\ errsClosed)
            /\ hist' = [hist EXCEPT
                          !.errSent = @ + Len(line),
                          !.statFaults = @ + (IF r = "error" THEN 1 ELSE 0),
                          !.drvErrs = @ \o [k \in 1..Len(line) |-> [i |-> 0, kind |-> line[k].kind]]]
    /\ UNCHANGED <<cfgVars, dstfs, msgs, msgsClosed, msgsDone, errsClosed, errsDone,
                   errCount, wg, copyTasks, freeCopyTasks, tasks, di, dsrcfi, dct,
                   finalErrCount, result, workerVars>>

\* lines 79-82 and 102-107: os.Stat(dst)
DriverStatDst ==
    /\ Running
    /\ dpc = "statdst"
    /\ \E r \in {IF dst \in DOMAIN dstfs THEN dstfs[dst].kind ELSE "absent"}
                  \cup (IF faultsLeft > 0 THEN {"error"} ELSE {}) :
        LET single == Len(srcs) = 1
            line == IF single THEN <<>>
                    ELSE IF r = "error" THEN << [kind |-> "stat", path |-> dst] >>
                    ELSE IF BadTarget(r) THEN << [kind |-> "target", path |-> dst] >>
                    ELSE <<>>
        IN  /\ Len(errs) + Len(line) <= errBuffer
            /\ faultsLeft' = IF r = "error" THEN faultsLeft - 1 ELSE faultsLeft
            /\ dst' = IF single /\ r = "dir" THEN RootDst(dst, srcs[1]) ELSE dst
            /\ dpc' = IF single \/ line = <<>> THEN "statsrc" ELSE "wait"
            /\ errs' = errs \o line
            /\ panicked' = (line # <<>> /\ errsClosed)
            /\ hist' = [hist EXCEPT
                          !.errSent = @ + Len(line),
                          !.statFaults = @ + (IF r = "error" THEN 1 ELSE 0),
                          !.drvErrs = @ \o [k \in 1..Len(line) |-> [i |-> 0, kind |-> line[k].kind]]]
    /\ UNCHANGED <<cfgVars, dstfs, msgs, msgsClosed, msgsDone, errsClosed, errsDone,
                   errCount, wg, copyTasks, freeCopyTasks, tasks, di, dsrcfi, dct,
                   finalErrCount, result, workerVars>>

\* lines 83-93 and 109-122: stat the source, report a failure or an omitted directory
DriverStatSrc ==
    /\ Running
    /\ dpc = "statsrc"
    /\ LET src == srcs[di]
           fi == IF cfg.noDereference THEN Lstat(src) ELSE Stat(src)
           line == IF ~fi.ok THEN << [kind |-> "stat", path |-> src] >>
                   ELSE IF Omitted(fi)
                        THEN << [kind |-> "omit", path |-> src] >>
                        ELSE <<>>
       IN  /\ Len(errs) + Len(line) <= errBuffer
           /\ errs' = errs \o line
           /\ panicked' = (line # <<>> /\ errsClosed)
           /\ hist' = [hist EXCEPT
                         !.errSent = @ + Len(line),
                         !.drvErrs = @ \o [k \in 1..Len(line) |-> [i |-> di, kind |-> line[k].kind]]]
           /\ IF line # <<>>
              THEN /\ DriverAdvance
                   /\ dsrcfi' = dsrcfi
              ELSE /\ dsrcfi' = fi
                   /\ dpc' = "acquire"
                   /\ di' = di
    /\ UNCHANGED <<cfgVars, dst, dstfs, faultsLeft, msgs, msgsClosed, msgsDone, errsClosed,
                   errsDone, errCount, wg, copyTasks, freeCopyTasks, tasks, dct,
                   finalErrCount, result, workerVars>>

\* lines 94-97 and 123-126: take a task object from the pool and fill it
DriverAcquire ==
    /\ Running
    /\ dpc = "acquire"
    /\ freeCopyTasks # <<>>
    /\ LET ct == Head(freeCopyTasks) IN
        /\ freeCopyTasks' = Tail(freeCopyTasks)
        /\ dct' = ct
        /\ tasks' = [tasks EXCEPT ![ct] =
                        [src |-> srcs[di],
                         dst |-> IF Len(srcs) = 1 THEN dst ELSE RootDst(dst, srcs[di]),
                         srcfi |-> dsrcfi]]
    /\ dpc' = "add"
    /\ UNCHANGED <<cfgVars, dst, dstfs, faultsLeft, sinkVars, wg, copyTasks, di, dsrcfi,
                   finalErrCount, result, workerVars, panicked, hist>>

\* DriverAdd without the wg.Add(1)
DriverAdd_NoAdd ==
    /\ Running
    /\ dpc = "add"
    /\ wg' = wg
    /\ dpc' = "send"
    /\ hist' = [hist EXCEPT !.adds = @ + 1, !.added = Bump(@, tasks[dct].src)]
    /\ UNCHANGED <<cfgVars, dst, dstfs, faultsLeft, sinkVars, copyTasks, freeCopyTasks,
                   tasks, di, dsrcfi, dct, finalErrCount, result, workerVars, panicked>>

\* lines 98 and 127: wg.Add(1)
DriverAdd ==
    /\ Running
    /\ dpc = "add"
    /\ wg' = wg + 1
    /\ dpc' = "send"
    /\ hist' = [hist EXCEPT !.adds = @ + 1, !.added = Bump(@, tasks[dct].src)]
    /\ UNCHANGED <<cfgVars, dst, dstfs, faultsLeft, sinkVars, copyTasks, freeCopyTasks,
                   tasks, di, dsrcfi, dct, finalErrCount, result, workerVars, panicked>>

\* lines 99 and 128: copyTasks <- ct
DriverSend ==
    /\ Running
    /\ dpc = "send"
    /\ Len(copyTasks) < cfg.parallelTasks
    /\ copyTasks' = Append(copyTasks, dct)
    /\ dct' = 0
    /\ hist' = [hist EXCEPT !.rootTasks =
                   Append(@, [i |-> di, src |-> tasks[dct].src, dst |-> tasks[dct].dst])]
    /\ DriverAdvance
    /\ UNCHANGED <<cfgVars, dst, dstfs, faultsLeft, sinkVars, wg, freeCopyTasks, tasks,
                   dsrcfi, finalErrCount, result, workerVars, panicked>>

\* DriverWait that closes msgs without waiting for the counter to be zero
DriverWait_NoWait ==
    /\ Running
    /\ dpc = "wait"
    /\ msgsClosed' = TRUE
    /\ dpc' = "waitmsgs"
    /\ UNCHANGED <<cfgVars, dst, dstfs, faultsLeft, msgs, msgsDone, errs, errsClosed,
                   errsDone, errCount, wg, copyTasks, freeCopyTasks, tasks, di, dsrcfi,
                   dct, finalErrCount, result, workerVars, panicked, hist>>

\* lines 133-135: wg.Wait() returns, close(msgs)
DriverWait ==
    /\ Running
    /\ dpc = "wait"
    /\ wg = 0
    /\ msgsClosed' = TRUE
    /\ dpc' = "waitmsgs"
    /\ UNCHANGED <<cfgVars, dst, dstfs, faultsLeft, msgs, msgsDone, errs, errsClosed,
                   errsDone, errCount, wg, copyTasks, freeCopyTasks, tasks, di, dsrcfi,
                   dct, finalErrCount, result, workerVars, panicked, hist>>

\* lines 136-137: <-msgsDone, close(errs)
DriverCloseErrs ==
    /\ Running
    /\ dpc = "waitmsgs"
    /\ msgsDone
    /\ errsClosed' = TRUE
    /\ dpc' = "waiterrs"
    /\ UNCHANGED <<cfgVars, dst, dstfs, faultsLeft, msgs, msgsClosed, msgsDone, errs,
                   errsDone, errCount, wg, copyTasks, freeCopyTasks, tasks, di, dsrcfi,
                   dct, finalErrCount, result, workerVars, panicked, hist>>

\* DriverReturn without the wait for errsDone
DriverReturn_NoDrain ==
    /\ Running
    /\ dpc = "waiterrs"
    /\ finalErrCount' = errCount
    /\ result' = IF Positive(errCount) THEN "error" ELSE "nil"
    /\ dpc' = "done"
    /\ UNCHANGED <<cfgVars, dst, dstfs, faultsLeft, sinkVars, wg, copyTasks,
                   freeCopyTasks, tasks, di, dsrcfi, dct, workerVars, panicked, hist>>

\* lines 138-143: <-errsDone, read the error count, return
DriverReturn ==
    /\ Running
    /\ dpc = "waiterrs"
    /\ errsDone
    /\ finalErrCount' = errCount
    /\ result' = IF Positive(errCount) THEN "error" ELSE "nil"
    /\ dpc' = "done"
    /\ UNCHANGED <<cfgVars, dst, dstfs, faultsLeft, sinkVars, wg, copyTasks,
                   freeCopyTasks, tasks, di, dsrcfi, dct, workerVars, panicked, hist>>

\* --------------------------------------------------------------- the sinks
\* lines 42-51: print every line, stop at the empty line of the closed channel
MsgSink ==
    /\ Running
    /\ ~msgsDone
    /\ msgs # <<>> \/ msgsClosed
    /\ IF msgs # <<>>
       THEN /\ msgs' = Tail(msgs)
            /\ msgsDone' = msgsDone
       ELSE /\ msgsDone' = TRUE
            /\ msgs' = msgs
    /\ UNCHANGED <<cfgVars, dst, dstfs, faultsLeft, msgsClosed, errs, errsClosed, errsDone,
                   errCount, wg, copyTasks, freeCopyTasks, tasks, dpc, di, dsrcfi, dct,
                   finalErrCount, result, workerVars, panicked, hist>>

\* lines 56-66: count and print every line, stop at the empty line
ErrSink ==
    /\ Running
    /\ ~errsDone
    /\ errs # <<>> \/ errsClosed
    /\ IF errs # <<>>
       THEN /\ errs' = Tail(errs)
            /\ errCount' = AddUint32(errCount)
            /\ errsDone' = errsDone
       ELSE /\ errsDone' = TRUE
            /\ errs' = errs
            /\ errCount' = errCount
    /\ UNCHANGED <<cfgVars, dst, dstfs, faultsLeft, msgs, msgsClosed, msgsDone, errsClosed,
                   wg, copyTasks, freeCopyTasks, tasks, dpc, di, dsrcfi, dct,
                   finalErrCount, result, workerVars, panicked, hist>>

\* ------------------------------------------------------------- the copiers
\* a test of line 394 that no entry passes
SymlinkTest_Never(fi) == FALSE

\* line 394: srcfi.Mode()|os.ModeSymlink != 0, an OR with a nonzero bit
SymlinkTest(fi) == TRUE

\* ExecPc without the os.Mkdir step for a directory
ExecPc_NoMkdir(fi) ==
    IF fi.kind = "dir" THEN "opendir"
    ELSE IF fi.kind = "file" THEN "open"
    ELSE IF SymlinkTest(fi) THEN "readlink"
    ELSE "done"

\* lines 315, 370, 394: the branch a task takes
ExecPc(fi) ==
    IF fi.kind = "dir" THEN "dir"
    ELSE IF fi.kind = "file" THEN "open"
    ELSE IF SymlinkTest(fi) THEN "readlink"
    ELSE "done"

\* AfterGet without the progress line
AfterGet_NoMsg(fi) == ExecPc(fi)

\* lines 312-314: a progress line comes first when verbosity > 0
AfterGet(fi) == IF cfg.verbosity > 0 THEN "msg" ELSE ExecPc(fi)

\* lines 320-323 and 385-388: the mode asked for at the destination
DstMode(fi) == IF cfg.preserveMode THEN fi.mode ELSE BitAnd(fi.mode, cfg.umask)

\* what a worker notes of an operation's outcome: the error line it sends
\* (line) and whether the operation failed (e)
Noted(h, src, e, line) ==
    [h EXCEPT !.errSent = @ + Len(line),
              !.wrkErrs = @ + Len(line),
              !.opFails = @ + (IF e \notin {"nil", "EEXIST-tolerated"} THEN 1 ELSE 0),
              !.failed = IF e \notin {"nil", "EEXIST-tolerated"} THEN @ \cup {src} ELSE @]

ErrLine(kind, path) == << [kind |-> kind, path |-> path] >>

\* errs <- line, for the at most one line of a step
Report(line) ==
    /\ Len(errs) + Len(line) <= errBuffer
    /\ errs' = errs \o line
    /\ panicked' = (line # <<>> /\ errsClosed)

\* lines 289-304: a buffered task is published if a pooled object is free,
\* and executed by this worker otherwise
WorkerLocal(w) ==
    /\ Running
    /\ pc[w] = "loop"
    /\ localTasks[w] # <<>>
    /\ LET i == Len(localTasks[w])
           ct == localTasks[w][i]
       IN  /\ localTasks' = [localTasks EXCEPT ![w] = SubSeq(@, 1, i - 1)]
           /\ IF freeCopyTasks # <<>>
              THEN /\ freeCopyTasks' = Tail(freeCopyTasks)
                   /\ tasks' = [tasks EXCEPT ![Head(freeCopyTasks)] = ct]
                   /\ held' = [held EXCEPT ![w] = Head(freeCopyTasks)]
                   /\ pc' = [pc EXCEPT ![w] = "pubsend"]
                   /\ cur' = cur
              ELSE /\ cur' = [cur EXCEPT ![w] = ct]
                   /\ pc' = [pc EXCEPT ![w] = AfterGet(ct.srcfi)]
                   /\ UNCHANGED <<freeCopyTasks, tasks, held>>
    /\ UNCHANGED <<cfgVars, dstfs, faultsLeft, sinkVars, wg, copyTasks, driverVars,
                   fis, ferr, lpos, fds, target, panicked, hist>>

\* lines 298-299: copyTasks <- fct; continue
WorkerPubSend(w) ==
    /\ Running
    /\ pc[w] = "pubsend"
    /\ Len(copyTasks) < cfg.parallelTasks
    /\ copyTasks' = Append(copyTasks, held[w])
    /\ held' = [held EXCEPT ![w] = 0]
    /\ pc' = [pc EXCEPT ![w] = "loop"]
    /\ UNCHANGED <<cfgVars, dstfs, faultsLeft, sinkVars, wg, freeCopyTasks, tasks,
                   driverVars, localTasks, cur, fis, ferr, lpos, fds, target,
                   panicked, hist>>

\* WorkerRecv that reads the object at the head of the queue and leaves it there
WorkerRecv_Peek(w) ==
    /\ Running
    /\ pc[w] = "loop"
    /\ localTasks[w] = <<>>
    /\ copyTasks # <<>>
    /\ copyTasks' = copyTasks
    /\ cur' = [cur EXCEPT ![w] = tasks[Head(copyTasks)]]
    /\ held' = [held EXCEPT ![w] = Head(copyTasks)]
    /\ pc' = [pc EXCEPT ![w] = "release"]
    /\ UNCHANGED <<cfgVars, dstfs, faultsLeft, sinkVars, wg, freeCopyTasks, tasks,
                   driverVars, localTasks, fis, ferr, lpos, fds, target, panicked, hist>>

\* WorkerRecv that does not look at the local buffer
WorkerRecv_Any(w) ==
    /\ Running
    /\ pc[w] = "loop"
    /\ copyTasks # <<>>
    /\ copyTasks' = Tail(copyTasks)
    /\ cur' = [cur EXCEPT ![w] = tasks[Head(copyTasks)]]
    /\ held' = [held EXCEPT ![w] = Head(copyTasks)]
    /\ pc' = [pc EXCEPT ![w] = "release"]
    /\ UNCHANGED <<cfgVars, dstfs, faultsLeft, sinkVars, wg, freeCopyTasks, tasks,
                   driverVars, localTasks, fis, ferr, lpos, fds, target, panicked, hist>>

\* lines 305-309: ct := <-copyTasks, with the local buffer empty
WorkerRecv(w) ==
    /\ Running
    /\ pc[w] = "loop"
    /\ localTasks[w] = <<>>
    /\ copyTasks # <<>>
    /\ copyTasks' = Tail(copyTasks)
    /\ cur' = [cur EXCEPT ![w] = tasks[Head(copyTasks)]]
    /\ held' = [held EXCEPT ![w] = Head(copyTasks)]
    /\ pc' = [pc EXCEPT ![w] = "release"]
    /\ UNCHANGED <<cfgVars, dstfs, faultsLeft, sinkVars, wg, freeCopyTasks, tasks,
                   driverVars, localTasks, fis, ferr, lpos, fds, target, panicked, hist>>

\* WorkerRelease where the worker goes on holding the object it returned
WorkerRelease_Keeps(w) ==
    /\ Running
    /\ pc[w] = "release"
    /\ Len(freeCopyTasks) < cfg.parallelTasks
    /\ freeCopyTasks' = Append(freeCopyTasks, held[w])
    /\ held' = held
    /\ pc' = [pc EXCEPT ![w] = AfterGet(cur[w].srcfi)]
    /\ UNCHANGED <<cfgVars, dstfs, faultsLeft, sinkVars, wg, copyTasks, tasks,
                   driverVars, localTasks, cur, fis, ferr, lpos, fds, target,
                   panicked, hist>>

\* WorkerRelease where the object is not put back into the pool
WorkerRelease_Drop(w) ==
    /\ Running
    /\ pc[w] = "release"
    /\ freeCopyTasks' = freeCopyTasks
    /\ held' = [held EXCEPT ![w] = 0]
    /\ pc' = [pc EXCEPT ![w] = AfterGet(cur[w].srcfi)]
    /\ UNCHANGED <<cfgVars, dstfs, faultsLeft, sinkVars, wg, copyTasks, tasks,
                   driverVars, localTasks, cur, fis, ferr, lpos, fds, target,
                   panicked, hist>>

\* line 310: freeCopyTasks <- ct
WorkerRelease(w) ==
    /\ Running
    /\ pc[w] = "release"
    /\ Len(freeCopyTasks) < cfg.parallelTasks
    /\ freeCopyTasks' = Append(freeCopyTasks, held[w])
    /\ held' = [held EXCEPT ![w] = 0]
    /\ pc' = [pc EXCEPT ![w] = AfterGet(cur[w].srcfi)]
    /\ UNCHANGED <<cfgVars, dstfs, faultsLeft, sinkVars, wg, copyTasks, tasks,
                   driverVars, localTasks, cur, fis, ferr, lpos, fds, target,
                   panicked, hist>>

\* lines 312-314: msgs <- "src -> dst"
WorkerMsg(w) ==
    /\ Running
    /\ pc[w] = "msg"
    /\ Len(msgs) < messageBuffer
    /\ msgs' = Append(msgs, [src |-> cur[w].src, dst |-> cur[w].dst])
    /\ panicked' = msgsClosed
    /\ pc' = [pc EXCEPT ![w] = ExecPc(cur[w].srcfi)]
    /\ hist' = [hist EXCEPT !.msgSent = Bump(@, [src |-> cur[w].src, dst |-> cur[w].dst])]
    /\ UNCHANGED <<cfgVars, dstfs, faultsLeft, msgsClosed, msgsDone, errs, errsClosed,
                   errsDone, errCount, wg, copyTasks, freeCopyTasks, tasks, driverVars,
                   localTasks, cur, held, fis, ferr, lpos, fds, target>>

\* lines 315-328: a directory is omitted without -r, and made otherwise
WorkerDir(w) ==
    /\ Running
    /\ pc[w] = "dir"
    /\ LET src == cur[w].src
           d == cur[w].dst
           forced == MkdirErr(dstfs, d)
       IN \E e \in IF cfg.recursive THEN Outcomes(forced) ELSE {"nil"} :
            LET line == IF ~cfg.recursive THEN ErrLine("omit", src)
                        ELSE IF e # "nil" /\ e # "EEXIST" THEN ErrLine("mkdir", d)
                        ELSE <<>>
                seen == IF ~cfg.recursive THEN "nil"
                        ELSE IF e = "EEXIST" THEN "EEXIST-tolerated" ELSE e
            IN  /\ Report(line)
                /\ faultsLeft' = IF cfg.recursive THEN FaultsAfter(forced, e) ELSE faultsLeft
                /\ dstfs' = IF cfg.recursive /\ e = "nil"
                            THEN Put(dstfs, d, [kind |-> "dir",
                                                mode |-> MkdirMode(DstMode(cur[w].srcfi), cfg.umask),
                                                data |-> <<>>])
                            ELSE dstfs
                /\ pc' = [pc EXCEPT ![w] = IF ~cfg.recursive THEN "loop"
                                           ELSE IF cfg.preserveMode THEN "chmod"
                                           ELSE "opendir"]
                /\ hist' = IF ~cfg.recursive
                           THEN [hist EXCEPT !.errSent = @ + 1, !.wrkErrs = @ + 1]
                           ELSE [Noted(hist, src, seen, line) EXCEPT
                                    !.mkdirTried = @ \cup {d},
                                    !.attempted = @ \cup {d}]
    /\ UNCHANGED <<cfgVars, msgs, msgsClosed, msgsDone, errsClosed, errsDone, errCount,
                   wg, copyTasks, freeCopyTasks, tasks, driverVars, localTasks, cur,
                   held, fis, ferr, lpos, fds, target>>

\* lines 331-335: os.Chmod(dst, m) under preserveMode
WorkerChmodDir(w) ==
    /\ Running
    /\ pc[w] = "chmod"
    /\ LET d == cur[w].dst
           forced == ChmodErr(dstfs, d)
       IN \E e \in Outcomes(forced) :
            LET line == IF e # "nil" THEN ErrLine("chmod", d) ELSE <<>>
            IN  /\ Report(line)
                /\ faultsLeft' = FaultsAfter(forced, e)
                /\ dstfs' = IF e = "nil"
                            THEN [dstfs EXCEPT ![d].mode = DstMode(cur[w].srcfi)]
                            ELSE dstfs
                /\ hist' = Noted(hist, cur[w].src, e, line)
    /\ pc' = [pc EXCEPT ![w] = "opendir"]
    /\ UNCHANGED <<cfgVars, msgs, msgsClosed, msgsDone, errsClosed, errsDone, errCount,
                   wg, copyTasks, freeCopyTasks, tasks, driverVars, localTasks, cur,
                   held, fis, ferr, lpos, fds, target>>

\* WorkerOpenDir with the wg.Done() of line 339 left out
WorkerOpenDir_NoDone(w) ==
    /\ Running
    /\ pc[w] = "opendir"
    /\ \E e \in Outcomes("nil") :
         LET line == IF e # "nil" THEN ErrLine("open", cur[w].src) ELSE <<>>
         IN  /\ Report(line)
             /\ faultsLeft' = FaultsAfter("nil", e)
             /\ fds' = [fds EXCEPT ![w] = IF e = "nil" THEN @ + 1 ELSE @]
             /\ lpos' = [lpos EXCEPT ![w] = 0]
             /\ pc' = [pc EXCEPT ![w] = IF e = "nil" THEN "readdir" ELSE "loop"]
             /\ hist' = [Noted(hist, cur[w].src, e, line) EXCEPT
                            !.unlisted = IF e # "nil" THEN @ \cup {cur[w].src} ELSE @]
    /\ UNCHANGED <<cfgVars, dstfs, msgs, msgsClosed, msgsDone, errsClosed, errsDone,
                   errCount, wg, copyTasks, freeCopyTasks, tasks, driverVars, localTasks,
                   cur, held, fis, ferr, target>>

\* lines 336-341: os.Open(src) of the directory; a failure ends the task
\* (the wg.Done() of line 339 is the step WorkerDone)
WorkerOpenDir(w) ==
    /\ Running
    /\ pc[w] = "opendir"
    /\ \E e \in Outcomes("nil") :
         LET line == IF e # "nil" THEN ErrLine("open", cur[w].src) ELSE <<>>
         IN  /\ Report(line)
             /\ faultsLeft' = FaultsAfter("nil", e)
             /\ fds' = [fds EXCEPT ![w] = IF e = "nil" THEN @ + 1 ELSE @]
             /\ lpos' = [lpos EXCEPT ![w] = 0]
             /\ pc' = [pc EXCEPT ![w] = IF e = "nil" THEN "readdir" ELSE "done"]
             /\ hist' = [Noted(hist, cur[w].src, e, line) EXCEPT
                            !.unlisted = IF e # "nil" THEN @ \cup {cur[w].src} ELSE @]
    /\ UNCHANGED <<cfgVars, dstfs, msgs, msgsClosed, msgsDone, errsClosed, errsDone,
                   errCount, wg, copyTasks, freeCopyTasks, tasks, driverVars, localTasks,
                   cur, held, fis, ferr, target>>

Min(a, b) == IF a < b THEN a ELSE b

\* after a child is handed on: the next child, the next batch, or the end
AfterChild(rest, err) ==
    IF rest # <<>> THEN "add" ELSE IF err = "nil" THEN "readdir" ELSE "listend"

\* line 343: f.Readdir(cfg.readdirBuffer): the next entries, io.EOF after the
\* last one, or the entries read before an error
WorkerReaddir(w) ==
    /\ Running
    /\ pc[w] = "readdir"
    /\ LET all == DirEntries(cur[w].src)
           rem == SubSeq(all, lpos[w] + 1, Len(all))
           full == Min(ReaddirBuffer, Len(rem))
       IN \E e \in Outcomes("nil") :
          \E k \in IF e = "nil" THEN {full} ELSE 0..full :
            /\ fis' = [fis EXCEPT ![w] = SubSeq(rem, 1, k)]
            /\ ferr' = [ferr EXCEPT ![w] = IF e # "nil" THEN "err"
                                           ELSE IF k = 0 THEN "EOF" ELSE "nil"]
            /\ lpos' = [lpos EXCEPT ![w] = @ + k]
            /\ faultsLeft' = FaultsAfter("nil", e)
            /\ pc' = [pc EXCEPT ![w] = IF k > 0 THEN "add" ELSE "listend"]
    /\ UNCHANGED <<cfgVars, dstfs, sinkVars, wg, copyTasks, freeCopyTasks, tasks,
                   driverVars, localTasks, cur, held, fds, target, panicked, hist>>

\* WorkerAddChild without the wg.Add(1)
WorkerAddChild_NoAdd(w) ==
    /\ Running
    /\ pc[w] = "add"
    /\ wg' = wg
    /\ pc' = [pc EXCEPT ![w] = "select"]
    /\ hist' = [hist EXCEPT !.adds = @ + 1,
                            !.added = Bump(@, Join(cur[w].src, Head(fis[w]).name)),
                            !.childDsts = @ \cup {Join(cur[w].dst, Head(fis[w]).name)}]
    /\ UNCHANGED <<cfgVars, dstfs, faultsLeft, sinkVars, copyTasks, freeCopyTasks, tasks,
                   driverVars, localTasks, cur, held, fis, ferr, lpos, fds, target,
                   panicked>>

\* lines 345-347: wg.Add(1) for the next entry
WorkerAddChild(w) ==
    /\ Running
    /\ pc[w] = "add"
    /\ wg' = wg + 1
    /\ pc' = [pc EXCEPT ![w] = "select"]
    /\ hist' = [hist EXCEPT !.adds = @ + 1,
                            !.added = Bump(@, Join(cur[w].src, Head(fis[w]).name)),
                            !.childDsts = @ \cup {Join(cur[w].dst, Head(fis[w]).name)}]
    /\ UNCHANGED <<cfgVars, dstfs, faultsLeft, sinkVars, copyTasks, freeCopyTasks, tasks,
                   driverVars, localTasks, cur, held, fis, ferr, lpos, fds, target,
                   panicked>>

\* WorkerSelectChild with a blocking receive from the pool in place of the
\* select with a default branch
WorkerSelectChild_Blocking(w) ==
    /\ Running
    /\ pc[w] = "select"
    /\ freeCopyTasks # <<>>
    /\ LET fi == Head(fis[w])
           child == [src |-> Join(cur[w].src, fi.name),
                     dst |-> Join(cur[w].dst, fi.name),
                     srcfi |-> fi]
       IN  /\ freeCopyTasks' = Tail(freeCopyTasks)
           /\ tasks' = [tasks EXCEPT ![Head(freeCopyTasks)] = child]
           /\ held' = [held EXCEPT ![w] = Head(freeCopyTasks)]
           /\ pc' = [pc EXCEPT ![w] = "send"]
    /\ fis' = [fis EXCEPT ![w] = Tail(@)]
    /\ UNCHANGED <<cfgVars, dstfs, faultsLeft, sinkVars, wg, copyTasks, driverVars,
                   localTasks, cur, ferr, lpos, fds, target, panicked, hist>>

\* lines 345-346 and 348-360: the child's task goes into a pooled object if
\* one is free, and into the local buffer otherwise
WorkerSelectChild(w) ==
    /\ Running
    /\ pc[w] = "select"
    /\ LET fi == Head(fis[w])
           child == [src |-> Join(cur[w].src, fi.name),
                     dst |-> Join(cur[w].dst, fi.name),
                     srcfi |-> fi]
       IN IF freeCopyTasks # <<>>
          THEN /\ freeCopyTasks' = Tail(freeCopyTasks)
               /\ tasks' = [tasks EXCEPT ![Head(freeCopyTasks)] = child]
               /\ held' = [held EXCEPT ![w] = Head(freeCopyTasks)]
               /\ pc' = [pc EXCEPT ![w] = "send"]
               /\ localTasks' = localTasks
               /\ hist' = hist
          ELSE /\ localTasks' = [localTasks EXCEPT ![w] = Append(@, child)]
               /\ pc' = [pc EXCEPT ![w] = AfterChild(Tail(fis[w]), ferr[w])]
               /\ hist' = [hist EXCEPT !.buffered = @ + 1]
               /\ UNCHANGED <<freeCopyTasks, tasks, held>>
    /\ fis' = [fis EXCEPT ![w] = Tail(@)]
    /\ UNCHANGED <<cfgVars, dstfs, faultsLeft, sinkVars, wg, copyTasks, driverVars,
                   cur, ferr, lpos, fds, target, panicked>>

\* line 353: copyTasks <- ct
WorkerSendChild(w) ==
    /\ Running
    /\ pc[w] = "send"
    /\ Len(copyTasks) < cfg.parallelTasks
    /\ copyTasks' = Append(copyTasks, held[w])
    /\ held' = [held EXCEPT ![w] = 0]
    /\ pc' = [pc EXCEPT ![w] = AfterChild(fis[w], ferr[w])]
    /\ UNCHANGED <<cfgVars, dstfs, faultsLeft, sinkVars, wg, freeCopyTasks, tasks,
                   driverVars, localTasks, cur, fis, ferr, lpos, fds, target,
                   panicked, hist>>

\* lines 362-368: f.Close(), and an error line unless the listing ended in io.EOF
WorkerListEnd(w) ==
    /\ Running
    /\ pc[w] = "listend"
    /\ LET e == IF ferr[w] = "EOF" THEN "nil" ELSE "EIO"
           line == IF ferr[w] # "EOF" THEN ErrLine("readdir", cur[w].src) ELSE <<>>
       IN  /\ Report(line)
           /\ hist' = [Noted(hist, cur[w].src, e, line) EXCEPT
                          !.unlisted = IF e # "nil" THEN @ \cup {cur[w].src} ELSE @]
    /\ fds' = [fds EXCEPT ![w] = @ - 1]
    /\ pc' = [pc EXCEPT ![w] = "done"]
    /\ UNCHANGED <<cfgVars, dstfs, faultsLeft, msgs, msgsClosed, msgsDone, errsClosed,
                   errsDone, errCount, wg, copyTasks, freeCopyTasks, tasks, driverVars,
                   localTasks, cur, held, fis, ferr, lpos, target>>

\* lines 371-373: os.Open(src) of a regular file
WorkerOpen(w) ==
    /\ Running
    /\ pc[w] = "open"
    /\ LET forced == IF Content(cur[w].src) = NoPath THEN "ENOENT" ELSE "nil"
       IN \E e \in Outcomes(forced) :
            LET line == IF e # "nil" THEN ErrLine("open", cur[w].src) ELSE <<>>
            IN  /\ Report(line)
                /\ faultsLeft' = FaultsAfter(forced, e)
                /\ fds' = [fds EXCEPT ![w] = IF e = "nil" THEN @ + 1 ELSE @]
                /\ pc' = [pc EXCEPT ![w] = IF e = "nil" THEN "create" ELSE "done"]
                /\ hist' = Noted(hist, cur[w].src, e, line)
    /\ UNCHANGED <<cfgVars, dstfs, msgs, msgsClosed, msgsDone, errsClosed, errsDone,
                   errCount, wg, copyTasks, freeCopyTasks, tasks, driverVars, localTasks,
                   cur, held, fis, ferr, lpos, target>>

\* WorkerCreate where a failure goes back to the loop without wg.Done()
WorkerCreate_NoDone(w) ==
    /\ Running
    /\ pc[w] = "create"
    /\ LET d == cur[w].dst
           forced == CreateErr(dstfs, d)
       IN \E e \in Outcomes(forced) :
            LET line == IF e # "nil" THEN ErrLine("create", d) ELSE <<>>
            IN  /\ Report(line)
                /\ faultsLeft' = FaultsAfter(forced, e)
                /\ dstfs' = IF e = "nil"
                            THEN Put(dstfs, d, [kind |-> "file",
                                                mode |-> CreateMode(dstfs, d, cfg.umask),
                                                data |-> <<>>])
                            ELSE dstfs
                /\ fds' = [fds EXCEPT ![w] = IF e = "nil" THEN @ + 1 ELSE @]
                /\ pc' = [pc EXCEPT ![w] = IF e = "nil" THEN "copy" ELSE "loop"]
                /\ hist' = [Noted(hist, cur[w].src, e, line) EXCEPT !.attempted = @ \cup {d}]
    /\ UNCHANGED <<cfgVars, msgs, msgsClosed, msgsDone, errsClosed, errsDone, errCount,
                   wg, copyTasks, freeCopyTasks, tasks, driverVars, localTasks, cur,
                   held, fis, ferr, lpos, target>>

\* lines 375-377: os.Create(dst); on failure srcf stays open
WorkerCreate(w) ==
    /\ Running
    /\ pc[w] = "create"
    /\ LET d == cur[w].dst
           forced == CreateErr(dstfs, d)
       IN \E e \in Outcomes(forced) :
            LET line == IF e # "nil" THEN ErrLine("create", d) ELSE <<>>
            IN  /\ Report(line)
                /\ faultsLeft' = FaultsAfter(forced, e)
                /\ dstfs' = IF e = "nil"
                            THEN Put(dstfs, d, [kind |-> "file",
                                                mode |-> CreateMode(dstfs, d, cfg.umask),
                                                data |-> <<>>])
                            ELSE dstfs
                /\ fds' = [fds EXCEPT ![w] = IF e = "nil" THEN @ + 1 ELSE @]
                /\ pc' = [pc EXCEPT ![w] = IF e = "nil" THEN "copy" ELSE "done"]
                /\ hist' = [Noted(hist, cur[w].src, e, line) EXCEPT !.attempted = @ \cup {d}]
    /\ UNCHANGED <<cfgVars, msgs, msgsClosed, msgsDone, errsClosed, errsDone, errCount,
                   wg, copyTasks, freeCopyTasks, tasks, driverVars, localTasks, cur,
                   held, fis, ferr, lpos, target>>

\* lines 379-384: io.CopyBuffer(dstf, srcf, copyBuf), srcf.Close(), dstf.Close()
WorkerCopy(w) ==
    /\ Running
    /\ pc[w] = "copy"
    /\ LET d == cur[w].dst
       IN \E e \in Outcomes("nil") :
            LET line == IF e # "nil" THEN ErrLine("copy", d) ELSE <<>>
            IN  /\ Report(line)
                /\ faultsLeft' = FaultsAfter("nil", e)
                /\ dstfs' = IF d \in DOMAIN dstfs /\ dstfs[d].kind = "file"
                            THEN [dstfs EXCEPT ![d].data =
                                     IF e = "nil" THEN Content(cur[w].src) ELSE <<"partial">>]
                            ELSE dstfs
                /\ hist' = Noted(hist, cur[w].src, e, line)
    /\ fds' = [fds EXCEPT ![w] = @ - 2]
    /\ pc' = [pc EXCEPT ![w] = "fchmod"]
    /\ UNCHANGED <<cfgVars, msgs, msgsClosed, msgsDone, errsClosed, errsDone, errCount,
                   wg, copyTasks, freeCopyTasks, tasks, driverVars, localTasks, cur,
                   held, fis, ferr, lpos, target>>

\* lines 385-391: os.Chmod(dst, m) of the copied file
WorkerChmodFile(w) ==
    /\ Running
    /\ pc[w] = "fchmod"
    /\ LET d == cur[w].dst
           forced == ChmodErr(dstfs, d)
       IN \E e \in Outcomes(forced) :
            LET line == IF e # "nil" THEN ErrLine("chmod", d) ELSE <<>>
            IN  /\ Report(line)
                /\ faultsLeft' = FaultsAfter(forced, e)
                /\ dstfs' = IF e = "nil"
                            THEN [dstfs EXCEPT ![d].mode = DstMode(cur[w].srcfi)]
                            ELSE dstfs
                /\ hist' = Noted(hist, cur[w].src, e, line)
    /\ pc' = [pc EXCEPT ![w] = "done"]
    /\ UNCHANGED <<cfgVars, msgs, msgsClosed, msgsDone, errsClosed, errsDone, errCount,
                   wg, copyTasks, freeCopyTasks, tasks, driverVars, localTasks, cur,
                   held, fis, ferr, lpos, fds, target>>

\* lines 395-397: os.Readlink(src)
WorkerReadlink(w) ==
    /\ Running
    /\ pc[w] = "readlink"
    /\ LET forced == IF Readlink(cur[w].src) = NoPath THEN "EINVAL" ELSE "nil"
       IN \E e \in Outcomes(forced) :
            LET line == IF e # "nil" THEN ErrLine("readlink", cur[w].src) ELSE <<>>
            IN  /\ Report(line)
                /\ faultsLeft' = FaultsAfter(forced, e)
                /\ target' = [target EXCEPT ![w] = IF e = "nil" THEN Readlink(cur[w].src) ELSE @]
                /\ pc' = [pc EXCEPT ![w] = IF e = "nil" THEN "symlink" ELSE "done"]
                /\ hist' = Noted(hist, cur[w].src, e, line)
    /\ UNCHANGED <<cfgVars, dstfs, msgs, msgsClosed, msgsDone, errsClosed, errsDone,
                   errCount, wg, copyTasks, freeCopyTasks, tasks, driverVars, localTasks,
                   cur, held, fis, ferr, lpos, fds>>

\* lines 398-400: os.Symlink(target, dst)
WorkerSymlink(w) ==
    /\ Running
    /\ pc[w] = "symlink"
    /\ LET d == cur[w].dst
           forced == SymlinkErr(dstfs, d)
       IN \E e \in Outcomes(forced) :
            LET line == IF e # "nil" THEN ErrLine("symlink", d) ELSE <<>>
            IN  /\ Report(line)
                /\ faultsLeft' = FaultsAfter(forced, e)
                /\ dstfs' = IF e = "nil"
                            THEN Put(dstfs, d, [kind |-> "symlink", mode |-> 511,
                                                data |-> target[w]])
                            ELSE dstfs
                /\ hist' = [Noted(hist, cur[w].src, e, line) EXCEPT !.attempted = @ \cup {d}]
    /\ pc' = [pc EXCEPT ![w] = "done"]
    /\ UNCHANGED <<cfgVars, msgs, msgsClosed, msgsDone, errsClosed, errsDone, errCount,
                   wg, copyTasks, freeCopyTasks, tasks, driverVars, localTasks, cur,
                   held, fis, ferr, lpos, fds, target>>

\* lines 339 and 402: wg.Done(); a negative counter panics
WorkerDone(w) ==
    /\ Running
    /\ pc[w] = "done"
    /\ wg' = wg - 1
    /\ panicked' = (wg - 1 < 0)
    /\ pc' = [pc EXCEPT ![w] = "loop"]
    /\ hist' = [hist EXCEPT !.dones = @ + 1, !.finished = Bump(@, cur[w].src),
                            !.tasksDone = @ \cup {cur[w]}]
    /\ UNCHANGED <<cfgVars, dstfs, faultsLeft, sinkVars, copyTasks, freeCopyTasks, tasks,
                   driverVars, localTasks, cur, held, fis, ferr, lpos, fds, target>>

\* ------------------------------------------------------ the specification
Driver ==
    \/ DriverStatDst
    \/ DriverStatSrc
    \/ DriverAcquire
    \/ DriverAdd
    \/ DriverSend
    \/ DriverWait
    \/ DriverCloseErrs
    \/ DriverReturn

Worker(w) ==
    \/ WorkerLocal(w)
    \/ WorkerPubSend(w)
    \/ WorkerRecv(w)
    \/ WorkerRelease(w)
    \/ WorkerMsg(w)
    \/ WorkerDir(w)
    \/ WorkerChmodDir(w)
    \/ WorkerOpenDir(w)
    \/ WorkerReaddir(w)
    \/ WorkerAddChild(w)
    \/ WorkerSelectChild(w)
    \/ WorkerSendChild(w)
    \/ WorkerListEnd(w)
    \/ WorkerOpen(w)
    \/ WorkerCreate(w)
    \/ WorkerCopy(w)
    \/ WorkerChmodFile(w)
    \/ WorkerReadlink(w)
    \/ WorkerSymlink(w)
    \/ WorkerDone(w)

Next ==
    \/ DriverStatDst
    \/ DriverStatSrc
    \/ DriverAcquire
    \/ DriverAdd
    \/ DriverSend
    \/ DriverWait
    \/ DriverCloseErrs
    \/ DriverReturn
    \/ MsgSink
    \/ ErrSink
    \/ \E w \in Workers : WorkerLocal(w)
    \/ \E w \in Workers : WorkerPubSend(w)
    \/ \E w \in Workers : WorkerRecv(w)
    \/ \E w \in Workers : WorkerRelease(w)
    \/ \E w \in Workers : WorkerMsg(w)
    \/ \E w \in Workers : WorkerDir(w)
    \/ \E w \in Workers : WorkerChmodDir(w)
    \/ \E w \in Workers : WorkerOpenDir(w)
    \/ \E w \in Workers : WorkerReaddir(w)
    \/ \E w \in Workers : WorkerAddChild(w)
    \/ \E w \in Workers : WorkerSelectChild(w)
    \/ \E w \in Workers : WorkerSendChild(w)
    \/ \E w \in Workers : WorkerListEnd(w)
    \/ \E w \in Workers : WorkerOpen(w)
    \/ \E w \in Workers : WorkerCreate(w)
    \/ \E w \in Workers : WorkerCopy(w)
    \/ \E w \in Workers : WorkerChmodFile(w)
    \/ \E w \in Workers : WorkerReadlink(w)
    \/ \E w \in Workers : WorkerSymlink(w)
    \/ \E w \in Workers : WorkerDone(w)

Spec == Init /\ [][Next]_vars

\* the Go scheduler runs every goroutine that can take a step
FairSpec ==
    /\ Spec
    /\ WF_vars(Driver)
    /\ WF_vars(MsgSink)
    /\ WF_vars(ErrSink)
    /\ \A w \in 1..MaxParallelTasks : WF_vars(w \in Workers /\ Worker(w))

\* The copiers taken by themselves: copier() executes whatever task arrives
\* on copyTasks. Handed is a state in which a task for the directory d sits
\* in the queue, counted once, with recursion off and the submitter waiting
\* in wg.Wait(). CPCP itself never submits such a task (lines 91 and 119).
Handed ==
    \E n \in 1..MaxParallelTasks :
        /\ cfg = [verbosity |-> 0, noDereference |-> FALSE, recursive |-> FALSE,
                  parallelTasks |-> n, umask |-> 18, preserveMode |-> FALSE]
        /\ srcs = << <<"d">> >>
        /\ dst = <<"t", "d">>
        /\ dstfs = DstInit("dir")
        /\ faultsLeft = 0
        /\ msgs = <<>> /\ msgsClosed = FALSE /\ msgsDone = FALSE
        /\ errs = <<>> /\ errsClosed = FALSE /\ errsDone = FALSE
        /\ errCount = [lo |-> 0, hi |-> 0]
        /\ wg = 1
        /\ copyTasks = <<1>>
        /\ freeCopyTasks = [i \in 1..(n - 1) |-> i + 1]
        /\ tasks = [i \in 1..n |->
                       IF i = 1 THEN [src |-> <<"d">>, dst |-> <<"t", "d">>,
                                      srcfi |-> Lstat(<<"d">>)]
                       ELSE EmptyTask]
        /\ dpc = "wait" /\ di = 1 /\ dsrcfi = Lstat(<<"d">>) /\ dct = 0
        /\ finalErrCount = [lo |-> 0, hi |-> 0] /\ result = "running"
        /\ pc = [w \in 1..n |-> "loop"]
        /\ localTasks = [w \in 1..n |-> <<>>]
        /\ cur = [w \in 1..n |-> EmptyTask]
        /\ held = [w \in 1..n |-> 0]
        /\ fis = [w \in 1..n |-> <<>>]
        /\ ferr = [w \in 1..n |-> "nil"]
        /\ lpos = [w \in 1..n |-> 0]
        /\ fds = [w \in 1..n |-> 0]
        /\ target = [w \in 1..n |-> <<>>]
        /\ panicked = FALSE
        /\ hist = [Hist0 EXCEPT !.dstWas = "dir", !.adds = 1,
                                !.added = (<<"d">> :> 1),
                                !.rootTasks = << [i |-> 1, src |-> <<"d">>,
                                                  dst |-> <<"t", "d">>] >>]

\* the runs of the program, and the runs of the copiers from Handed
CopierSpec == (Init \/ Handed) /\ [][Next]_vars

\* ------------------------------------------------------------ the claims
\* the driver has returned
Done == dpc = "done"

\* the driver has submitted every root task
Submitted == dpc \in {"wait", "waitmsgs", "waiterrs", "done"}

\* nothing is queued, buffered or being executed
Quiescent ==
    /\ Submitted
    /\ copyTasks = <<>>
    /\ \A w \in Workers : pc[w] = "loop" /\ localTasks[w] = <<>>

\* C1: every fair execution of the driver and the N copiers terminates: the
\* WaitGroup returns to zero, the driver's wg.Wait() returns and the driver
\* runs to its return, also when a directory has more entries than the
\* channels have room for.
C1_Termination == <>(dpc = "done" /\ wg = 0)

\* a run that ended after a worker had to buffer entries of a directory
\* with more entries than the channels hold
C1_Witness ==
    /\ Done
    /\ hist.buffered > 0
    /\ \E p \in DOMAIN hist.finished :
          p \in DOMAIN SrcFS /\ Len(SrcFS[p].entries) > cfg.parallelTasks

\* C2: the WaitGroup counter is never negative, it is the number of
\* increments less the number of decrements, no task is decremented more
\* often than it was counted, and once nothing is left to do (and when the
\* driver returns) the increments equal the decrements.
C2_CompletionInvariant ==
    /\ ~panicked
    /\ wg >= 0
    /\ wg = hist.adds - hist.dones
    /\ \A p \in DOMAIN hist.finished : hist.finished[p] <= Count(hist.added, p)
    /\ Quiescent \/ Done =>
          /\ wg = 0
          /\ hist.adds = hist.dones
          /\ \A p \in DOMAIN hist.added : Count(hist.finished, p) = hist.added[p]

\* a finished run of the whole tree d: five tasks counted, five decremented
C2_Witness ==
    /\ Done
    /\ hist.adds >= 5
    /\ hist.adds = hist.dones

\* no operation failed and no error line was sent
NoFailure == hist.opFails = 0 /\ hist.statFaults = 0 /\ hist.errSent = 0

\* the destination the i-th source is to be copied to
ExpectedRoot(i) ==
    IF Len(srcs) > 1 \/ hist.dstWas \in {"dir", "dirWithD"}
    THEN DstArg \o << srcs[i][Len(srcs[i])] >>
    ELSE DstArg

\* the paths of the source tree at and below r
Subtree(r) ==
    {q \in DOMAIN SrcFS : Len(q) >= Len(r) /\ SubSeq(q, 1, Len(r)) = r}

\* the destination path that corresponds to q of the i-th source's tree
Corresponding(i, q) == ExpectedRoot(i) \o SubSeq(q, Len(srcs[i]) + 1, Len(q))

\* C3: when a recursive copy in which nothing failed has finished, every
\* regular file of the source tree is a file with the same content at the
\* corresponding destination path, and every symbolic link is a symbolic
\* link with the same target there.
C3_TreeCopied ==
    Done /\ cfg.recursive /\ NoFailure =>
        \A i \in 1..Len(srcs) : \A q \in Subtree(srcs[i]) :
            /\ SrcFS[q].kind = "file" =>
                  /\ Corresponding(i, q) \in DOMAIN dstfs
                  /\ dstfs[Corresponding(i, q)].kind = "file"
                  /\ dstfs[Corresponding(i, q)].data = q
            /\ SrcFS[q].kind = "symlink" =>
                  /\ Corresponding(i, q) \in DOMAIN dstfs
                  /\ dstfs[Corresponding(i, q)].kind = "symlink"
                  /\ dstfs[Corresponding(i, q)].data = SrcFS[q].target

\* a finished recursive copy of d without failures in which entries went
\* through a worker's buffer
C3_Witness ==
    /\ Done /\ cfg.recursive /\ NoFailure
    /\ srcs = << <<"d">> >>
    /\ hist.buffered > 0
    /\ <<"t", "s", "g">> \in DOMAIN dstfs

\* C4: every failed operation of a worker produces one error line, no task
\* is decremented more often than it was counted, and when nothing is left
\* to do every counted task has been decremented once and the counter is
\* zero; every entry of a directory that was listed has been executed,
\* whatever failed in the tasks of the other entries.
C4_ErrorHandling ==
    /\ hist.wrkErrs = hist.opFails
    /\ \A p \in DOMAIN hist.finished : hist.finished[p] <= Count(hist.added, p)
    /\ Quiescent \/ Done =>
          /\ wg = 0
          /\ \A p \in DOMAIN hist.added : Count(hist.finished, p) = hist.added[p]
          /\ \A d \in DOMAIN hist.finished :
                SrcFS[d].kind = "dir" /\ d \notin hist.unlisted =>
                    \A k \in 1..Len(SrcFS[d].entries) :
                        Append(d, SrcFS[d].entries[k]) \in DOMAIN hist.finished

\* a finished run in which an operation of one entry's task failed and the
\* task of another entry of the same directory was executed
C4_Witness ==
    /\ Done
    /\ hist.opFails > 0
    /\ \E p \in hist.failed : \E q \in DOMAIN hist.finished :
          Len(p) > 1 /\ q # p /\ Dir(q) = Dir(p) /\ q \notin hist.failed

\* C5: the count the driver reads after the sinks are drained is the number
\* of error lines sent, and the run fails exactly if that count is not zero.
C5_ErrorCount ==
    Done =>
        /\ Value(finalErrCount) = hist.errSent
        /\ result \in {"nil", "error"}
        /\ result = "error" <=> hist.errSent > 0

\* a failed run with error lines of the driver and of a worker
C5_Witness ==
    /\ Done
    /\ result = "error"
    /\ Len(hist.drvErrs) > 0
    /\ hist.wrkErrs > 0

\* C6: with two or more sources and a destination that does not exist or is
\* not a directory, no task is ever counted or submitted, and exactly one
\* error line is sent.
C6_BadTarget ==
    Len(srcs) >= 2 /\ hist.dstWas \in {"absent", "file"} =>
        /\ hist.adds = 0
        /\ hist.rootTasks = <<>>
        /\ wg = 0 /\ copyTasks = <<>>
        /\ hist.errSent = IF dpc = "statdst" THEN 0 ELSE 1
        /\ Done => Value(finalErrCount) = 1

\* a finished run with three sources and a regular file as the destination
C6_Witness ==
    /\ Done
    /\ Len(srcs) = 3 /\ hist.dstWas = "file"
    /\ Len(hist.drvErrs) = 1 /\ hist.drvErrs[1].kind = "target"

\* the driver's error lines of one kind for the i-th source
DrvLines(i, kind) ==
    Cardinality({k \in 1..Len(hist.drvErrs) :
                    hist.drvErrs[k].i = i /\ hist.drvErrs[k].kind = kind})

\* the root tasks submitted for the i-th source
RootsOf(i) == {k \in 1..Len(hist.rootTasks) : hist.rootTasks[k].i = i}

Missing(i) == srcs[i] \notin DOMAIN SrcFS

DirWithoutR(i) == ~Missing(i) /\ SrcFS[srcs[i]].kind = "dir" /\ ~cfg.recursive

\* the driver got to look at the sources
Examined == Len(srcs) = 1 \/ \A k \in 1..Len(hist.drvErrs) : hist.drvErrs[k].i # 0

NothingMade(i) ==
    LET was == DstInit(hist.dstWas) IN
    ExpectedRoot(i) \in DOMAIN dstfs =>
        ExpectedRoot(i) \in DOMAIN was /\ dstfs[ExpectedRoot(i)] = was[ExpectedRoot(i)]

\* C8 as stated: for every source that is a directory, without -r, the
\* driver sends one "omitting directory" line, submits no task, and nothing
\* is made at the destination.
C8_OmitAlways ==
    Submitted =>
        \A i \in 1..Len(srcs) : DirWithoutR(i) =>
            DrvLines(i, "omit") = 1 /\ RootsOf(i) = {} /\ NothingMade(i)

\* C8 (amended): the same for every source the driver looks at, that is in a
\* single-source run, and in a run with several sources whose destination
\* the driver found to be a directory; otherwise no line is sent for it.
C8_OmitWhenExamined ==
    Submitted =>
        \A i \in 1..Len(srcs) : DirWithoutR(i) =>
            /\ DrvLines(i, "omit") = IF Examined THEN 1 ELSE 0
            /\ RootsOf(i) = {}
            /\ NothingMade(i)

\* copying the directory d without -r: one line, and the run has ended
C8_Witness ==
    /\ Done
    /\ srcs = << <<"d">> >> /\ ~cfg.recursive
    /\ hist.drvErrs = << [i |-> 1, kind |-> "omit"] >>
    /\ hist.adds = 0
    /\ dstfs = DstInit(hist.dstWas)

\* C9 as stated: after the run, every regular file and directory copied
\* without error has the permission bits (source mode AND umask) without
\* preserve-mode, and the source mode with it.
C9_PermissionInvariant ==
    Done =>
        \A t \in hist.tasksDone :
            t.srcfi.kind \in {"file", "dir"} /\ t.src \notin hist.failed =>
                /\ t.dst \in DOMAIN dstfs
                /\ dstfs[t.dst].mode = IF cfg.preserveMode THEN t.srcfi.mode
                                       ELSE BitAnd(t.srcfi.mode, cfg.umask)

\* C10: a worker tries to make an entry of a destination directory only
\* after os.Mkdir was called on that directory, and the entry's task is
\* counted only after that call.
C10_MkdirFirst ==
    /\ \A q \in hist.childDsts : Dir(q) \in hist.mkdirTried
    /\ \A q \in hist.attempted : q \in hist.childDsts => Dir(q) \in hist.mkdirTried
    /\ \A w \in Workers :
          pc[w] \in {"create", "copy", "fchmod", "symlink", "chmod"}
          /\ cur[w].dst \in hist.childDsts => Dir(cur[w].dst) \in hist.mkdirTried

\* a worker is about to create a file in a destination directory
C10_Witness ==
    \E w \in Workers :
        /\ pc[w] = "create"
        /\ cur[w].dst \in hist.childDsts
        /\ Dir(cur[w].dst) \in hist.mkdirTried
        /\ DstIsDir(dstfs, Dir(cur[w].dst))

\* C11 as stated: with one source, the root task goes to
\* destination/basename(source) when the destination is an existing
\* directory and to the destination as given otherwise, and one root task is
\* submitted exactly when the source can be stat'ed and is not an omitted
\* directory.
C11_SingleByKind ==
    Len(srcs) = 1 =>
        /\ \A k \in 1..Len(hist.rootTasks) :
              /\ hist.rootTasks[k].src = srcs[1]
              /\ hist.rootTasks[k].dst =
                    IF hist.dstWas \in {"dir", "dirWithD"}
                    THEN DstArg \o << srcs[1][Len(srcs[1])] >>
                    ELSE DstArg
        /\ Len(hist.rootTasks) <= 1
        /\ Submitted =>
              (Len(hist.rootTasks) = 1 <=> ~Missing(1) /\ ~DirWithoutR(1))

\* C11 (amended): the root task goes to destination/basename(source) when
\* os.Stat(destination) succeeds and reports a directory, and to the
\* destination as given otherwise, which includes an existing directory on
\* which os.Stat fails; one root task is submitted exactly when the source
\* can be stat'ed and is not an omitted directory.
C11_SingleByStat ==
    Len(srcs) = 1 =>
        /\ \A k \in 1..Len(hist.rootTasks) :
              /\ hist.rootTasks[k].src = srcs[1]
              /\ hist.rootTasks[k].dst =
                    IF hist.dstWas \in {"dir", "dirWithD"} /\ hist.statFaults = 0
                    THEN DstArg \o << srcs[1][Len(srcs[1])] >>
                    ELSE DstArg
        /\ Len(hist.rootTasks) <= 1
        /\ Submitted =>
              (Len(hist.rootTasks) = 1 <=> ~Missing(1) /\ ~DirWithoutR(1))

\* the file f was copied into the existing directory t as t/f
C11_Witness ==
    /\ Done
    /\ srcs = << <<"f">> >> /\ hist.dstWas = "dir" /\ hist.statFaults = 0
    /\ hist.rootTasks = << [i |-> 1, src |-> <<"f">>, dst |-> <<"t", "f">>] >>
    /\ <<"t", "f">> \in DOMAIN dstfs

\* the step a worker takes from the position at
StepOf(w, at) == pc[w] = at /\ pc'[w] # at

\* one error line of the given kind and path is sent, and no progress line
OneErrLine(kind, path) ==
    /\ errs' = Append(errs, [kind |-> kind, path |-> path])
    /\ hist'.errSent = hist.errSent + 1
    /\ msgs' = msgs

\* C12: a task for a symbolic link that is not dereferenced makes, at its
\* destination, a symbolic link with the target string of the source link;
\* a failed os.Readlink and a failed os.Symlink each send one error line and
\* change nothing else: the destination tree stays as it was.
C12_SymlinkRoundTrip ==
    [][\A w \in Workers :
          /\ StepOf(w, "readlink") /\ cur[w].srcfi.kind = "symlink" =>
                \/ /\ pc'[w] = "symlink"
                   /\ target'[w] = SrcFS[cur[w].src].target
                   /\ errs' = errs /\ dstfs' = dstfs
                \/ /\ pc'[w] = "done"
                   /\ OneErrLine("readlink", cur[w].src)
                   /\ dstfs' = dstfs
          /\ StepOf(w, "symlink") /\ cur[w].srcfi.kind = "symlink" =>
                /\ pc'[w] = "done"
                /\ \/ /\ errs' = errs
                      /\ cur[w].dst \notin DOMAIN dstfs
                      /\ DOMAIN dstfs' = DOMAIN dstfs \cup {cur[w].dst}
                      /\ \A q \in DOMAIN dstfs : dstfs'[q] = dstfs[q]
                      /\ dstfs'[cur[w].dst].kind = "symlink"
                      /\ dstfs'[cur[w].dst].data = SrcFS[cur[w].src].target
                   \/ /\ OneErrLine("symlink", cur[w].dst)
                      /\ dstfs' = dstfs]_vars

\* the task for the link d/l to "a" is finished and t/l is a link to "a"
C12_Witness ==
    /\ <<"t", "l">> \in DOMAIN dstfs
    /\ dstfs[<<"t", "l">>].kind = "symlink"
    /\ dstfs[<<"t", "l">>].data = <<"a">>
    /\ \E t \in hist.tasksDone : t.src = <<"d", "l">> /\ t.dst = <<"t", "l">>

\* the preallocated task objects
Objects == 1..cfg.parallelTasks

\* the places of object i in a channel
PlacesIn(ch, i) == {k \in 1..Len(ch) : ch[k] = i}

\* the processes that hold object i: the driver (0) or a worker
HoldersOf(i) == (IF dct = i THEN {0} ELSE {}) \cup {w \in Workers : held[w] = i}

\* C13: a pooled task object is held by at most one process, and an object a
\* process holds is in neither channel; the fields of an object are written
\* only in the step in which a process takes it from the pool, so before
\* that process sends it; an object in the queue is not written; a worker
\* reads the fields of the object it dequeues before it returns it.
C13_Ownership ==
    /\ [](\A i \in Objects :
             /\ Cardinality(HoldersOf(i)) <= 1
             /\ HoldersOf(i) # {} => PlacesIn(copyTasks, i) = {} /\ PlacesIn(freeCopyTasks, i) = {}
             /\ Cardinality(PlacesIn(copyTasks, i)) + Cardinality(PlacesIn(freeCopyTasks, i)) <= 1)
    /\ [](\A w \in Workers :
             pc[w] = "release" => held[w] \in Objects /\ cur[w] = tasks[held[w]])
    /\ [][\A i \in Objects :
             /\ tasks'[i] # tasks[i] =>
                   /\ PlacesIn(freeCopyTasks, i) # {} /\ HoldersOf(i) = {}
                   /\ PlacesIn(freeCopyTasks', i) = {} /\ PlacesIn(copyTasks', i) = {}
                   /\ Cardinality(HoldersOf(i)') = 1
             /\ PlacesIn(copyTasks', i) # {} /\ PlacesIn(copyTasks, i) = {} =>
                   /\ Cardinality(HoldersOf(i)) = 1 /\ HoldersOf(i)' = {}
                   /\ tasks'[i] = tasks[i]
             /\ PlacesIn(freeCopyTasks', i) # {} /\ PlacesIn(freeCopyTasks, i) = {} =>
                   \E w \in Workers : held[w] = i /\ pc[w] = "release" /\ cur[w] = tasks[i]]_vars

\* a worker holds an object it filled for an entry of its directory while
\* another worker holds the object it has just dequeued
C13_Witness ==
    \E w1, w2 \in Workers :
        /\ pc[w1] = "send" /\ pc[w2] = "release"
        /\ held[w1] \in Objects /\ held[w2] \in Objects /\ held[w1] # held[w2]
        /\ tasks[held[w1]].src = Join(cur[w1].src, tasks[held[w1]].srcfi.name)

\* the last element of a nonempty sequence, and the sequence without it
Last(q) == q[Len(q)]
Front(q) == SubSeq(q, 1, Len(q) - 1)

\* C14: a worker receives from the work queue only with an empty local
\* buffer; with a nonempty buffer it takes the last buffered task off the
\* buffer and either writes it into a pooled object it got without waiting
\* and sends that to the queue, or, with no object in the pool, executes the
\* task itself; neither the step nor the send to the queue ever has to wait.
C14_LocalFirst ==
    /\ [](\A w \in Workers :
             /\ pc[w] = "release" => localTasks[w] = <<>>
             /\ Running /\ pc[w] = "loop" /\ localTasks[w] # <<>> =>
                   ENABLED WorkerLocal(w) /\ ~ENABLED WorkerRecv(w)
             /\ Running /\ pc[w] = "pubsend" => ENABLED WorkerPubSend(w))
    /\ [][\A w \in Workers :
             /\ StepOf(w, "loop") /\ localTasks[w] = <<>> =>
                   pc'[w] = "release" /\ copyTasks' = Tail(copyTasks)
             /\ StepOf(w, "loop") /\ localTasks[w] # <<>> =>
                   /\ copyTasks' = copyTasks
                   /\ localTasks'[w] = Front(localTasks[w])
                   /\ IF freeCopyTasks # <<>>
                      THEN /\ pc'[w] = "pubsend"
                           /\ held'[w] = Head(freeCopyTasks)
                           /\ tasks'[held'[w]] = Last(localTasks[w])
                           /\ cur'[w] = cur[w]
                      ELSE /\ cur'[w] = Last(localTasks[w])
                           /\ pc'[w] \notin {"loop", "pubsend", "release"}
             /\ StepOf(w, "pubsend") =>
                   pc'[w] = "loop" /\ copyTasks' = Append(copyTasks, held[w])]_vars

\* a worker is about to send a task from its buffer to the queue, which
\* holds a task it could have received instead
C14_Witness ==
    \E w \in Workers :
        /\ pc[w] = "pubsend"
        /\ copyTasks # <<>>
        /\ hist.buffered > 0

Returned(i) == PlacesIn(freeCopyTasks', i) # {} /\ PlacesIn(freeCopyTasks, i) = {}

\* the positions of a worker between the progress line and wg.Done(), but
\* for the send of an entry's object
InAction ==
    {"msg", "dir", "chmod", "opendir", "readdir", "add", "select", "listend",
     "open", "create", "copy", "fchmod", "readlink", "symlink", "done"}

C17_DescriptorsClosed ==
    \A w \in Workers :
        /\ pc[w] = "fchmod" => fds[w] = 0
        /\ pc[w] = "done" /\ cur[w].srcfi.kind = "file" => fds[w] = 0

\* the progress lines sent for task t
MsgCount(t) ==
    Count(hist.msgSent, [src |-> t.src, dst |-> t.dst])

\* the tasks that wait to be executed: in the queue, in an object about to
\* be sent, or in a buffer
Waiting ==
    {tasks[copyTasks[k]] : k \in 1..Len(copyTasks)}
    \cup {tasks[held[w]] : w \in {v \in Workers : pc[v] \in {"send", "pubsend"}}}
    \cup (IF dpc = "send" THEN {tasks[dct]} ELSE {})
    \cup UNION {{localTasks[w][k] : k \in 1..Len(localTasks[w])} : w \in Workers}

\* C18: with verbosity > 0 one "source -> destination" line is sent for each
\* task, by the worker that executes it and before anything of its copy
\* action: no line for a task that waits in the queue or a buffer or is
\* moved from a buffer to the queue, none yet for a task whose worker is
\* about to send the line, one for a task in execution or finished; no
\* destination is touched before its line. With verbosity 0 no line is sent.
C18_ProgressLine ==
    /\ [](cfg.verbosity = 0 => hist.msgSent = <<>>)
    /\ [](cfg.verbosity > 0 =>
             /\ \A t \in Waiting : MsgCount(t) = 0
             /\ \A w \in Workers :
                   /\ pc[w] \in {"release", "msg"} => MsgCount(cur[w]) = 0
                   /\ pc[w] \in (InAction \ {"msg"}) \cup {"send"} => MsgCount(cur[w]) = 1
             /\ \A t \in hist.tasksDone : MsgCount(t) = 1
             /\ \A q \in hist.attempted :
                   \E m \in DOMAIN hist.msgSent : m.dst = q)
    /\ [][\A w \in Workers :
             /\ StepOf(w, "loop") \/ StepOf(w, "pubsend") \/ StepOf(w, "release") =>
                   msgs' = msgs /\ hist'.msgSent = hist.msgSent
             /\ StepOf(w, "msg") =>
                   /\ msgs' = Append(msgs, [src |-> cur[w].src, dst |-> cur[w].dst])
                   /\ dstfs' = dstfs /\ wg' = wg /\ errs' = errs]_vars

\* with progress lines on, a worker moves a buffered task to the queue:
\* lines were sent for other tasks and none for this one
C18_Witness ==
    \E w \in Workers :
        /\ cfg.verbosity > 0
        /\ pc[w] = "pubsend"
        /\ Cardinality(DOMAIN hist.msgSent) >= 2
        /\ MsgCount(tasks[held[w]]) = 0

\* the number of workers at one of the positions
WorkersAt(positions) == Cardinality({w \in Workers : pc[w] \in positions})

\* the number of tasks in the workers' buffers
Buffered ==
    Cardinality(UNION {{<<w, k>> : k \in 1..Len(localTasks[w])} : w \in Workers})

\* the tasks that have been counted and are not finished: about to be sent
\* by the driver, in the queue, in a buffer, counted by a worker and about
\* to be handed on, taken from a buffer and about to be sent, in execution
Outstanding ==
    (IF dpc = "send" THEN 1 ELSE 0)
    + Len(copyTasks)
    + Buffered
    + WorkersAt({"select", "send"})
    + WorkersAt({"pubsend"})
    + WorkersAt(InAction \cup {"release", "send"})

\* C19: the WaitGroup counter is the number of tasks counted and not yet
\* finished, so a task is counted before it is in the queue or a buffer; a
\* worker decrements for a directory only when every entry it listed has
\* been counted and handed on, and every entry of a finished directory whose
\* listing did not fail has been counted.
C19_TrackerCounts ==
    /\ wg = Outstanding
    /\ \A w \in Workers :
          pc[w] = "done" /\ cur[w].srcfi.kind = "dir" => fis[w] = <<>>
    /\ \A t \in hist.tasksDone :
          t.srcfi.kind = "dir" /\ t.src \notin hist.unlisted =>
              \A k \in 1..Len(SrcFS[t.src].entries) :
                  Count(hist.added, Append(t.src, SrcFS[t.src].entries[k])) = 1

\* a counter of at least four: tasks in the queue and in a buffer, one
\* counted and not yet handed on, and the directory's own
C19_Witness ==
    /\ wg >= 4
    /\ copyTasks # <<>>
    /\ Buffered >= 1
    /\ WorkersAt({"select"}) >= 1

\* the objects in the pool
Pooled == {freeCopyTasks[k] : k \in 1..Len(freeCopyTasks)}

\* C20: once the driver has submitted every root task and the WaitGroup
\* counter is zero, the queue and every buffer are empty, all N objects are
\* in the pool, every worker is at the receive from the queue and can take
\* no step, and the counter, the queue, the pool and the workers stay as
\* they are.
C20_QuiescentForever ==
    /\ [](Submitted /\ wg = 0 =>
             /\ copyTasks = <<>>
             /\ Len(freeCopyTasks) = cfg.parallelTasks /\ Pooled = Objects
             /\ dct = 0
             /\ \A w \in Workers :
                   /\ pc[w] = "loop" /\ localTasks[w] = <<>> /\ held[w] = 0
                   /\ ~ENABLED Worker(w))
    /\ [][Submitted /\ wg = 0 =>
             /\ wg' = 0
             /\ copyTasks' = copyTasks /\ freeCopyTasks' = freeCopyTasks
             /\ pc' = pc /\ localTasks' = localTasks /\ dstfs' = dstfs]_vars

\* the driver waits with the counter back at zero after a run of all the
\* workers in which tasks were buffered
C20_Witness ==
    /\ dpc = "wait" /\ wg = 0
    /\ cfg.parallelTasks = MaxParallelTasks
    /\ hist.adds >= 4 /\ hist.buffered > 0
    /\ Len(freeCopyTasks) = cfg.parallelTasks

\* the objects processes hold: the driver's and the workers'
HeldCount == (IF dct # 0 THEN 1 ELSE 0) + Cardinality({w \in Workers : held[w] # 0})

\* C21: the objects in the pool, in the queue and held by the driver or a
\* worker are N together, in every state; so the sends of an acquired object
\* to the queue (by the driver, for a directory entry, for a buffered task)
\* and the return of a dequeued object to the pool always find room.
C21_Conservation ==
    /\ Len(freeCopyTasks) + Len(copyTasks) + HeldCount = cfg.parallelTasks
    /\ dpc = "send" => dct # 0 /\ Len(copyTasks) < cfg.parallelTasks
    /\ \A w \in Workers :
          /\ pc[w] \in {"send", "pubsend"} =>
                held[w] # 0 /\ Len(copyTasks) < cfg.parallelTasks
          /\ pc[w] = "release" =>
                held[w] # 0 /\ Len(freeCopyTasks) < cfg.parallelTasks
          /\ Running /\ pc[w] = "send" => ENABLED WorkerSendChild(w)
          /\ Running /\ pc[w] = "release" => ENABLED WorkerRelease(w)
    /\ Running /\ dpc = "send" => ENABLED DriverSend

\* with all the workers running the pool is empty: every object is in the
\* queue or held, and a worker is about to send one to the queue
C21_Witness ==
    /\ cfg.parallelTasks = MaxParallelTasks
    /\ freeCopyTasks = <<>>
    /\ copyTasks # <<>>
    /\ \E w \in Workers : pc[w] = "send" /\ held[w] # 0

\* C22: nothing is sent on msgs or errs once the driver has closed it. The
\* driver closes msgs only with the counter at zero and all root tasks
\* submitted, and errs only after the msgs sink has signalled; a worker
\* sends a line only while the counter still counts its task, in a step
\* other than its wg.Done(); the driver sends its lines before it waits. A
\* sink signals only after its channel is closed and drained, and the driver
\* reads the error count only after both sinks have signalled.
C22_NoSendAfterClose ==
    /\ [](/\ ~panicked
          /\ msgsClosed => Submitted /\ dpc # "wait" /\ wg = 0
          /\ errsClosed => msgsClosed /\ msgsDone /\ wg = 0
          /\ msgsDone => msgsClosed /\ msgs = <<>>
          /\ errsDone => errsClosed /\ errs = <<>>
          /\ Done => /\ msgsDone /\ errsDone
                     /\ Value(finalErrCount) = Value(errCount)
                     /\ Value(errCount) = hist.errSent)
    /\ [][/\ Len(msgs') > Len(msgs) =>
                /\ ~msgsClosed
                /\ wg > 0 /\ wg' = wg
                /\ \E w \in Workers : StepOf(w, "msg")
          /\ Len(errs') > Len(errs) =>
                /\ ~errsClosed /\ ~msgsClosed
                /\ wg' = wg
                /\ \/ dpc \in {"statdst", "statsrc"} /\ pc' = pc
                   \/ /\ wg > 0
                      /\ \E w \in Workers :
                            pc[w] \in InAction \ {"msg", "done"} /\ StepOf(w, pc[w])
          /\ wg' < wg => msgs' = msgs /\ errs' = errs
          /\ msgsClosed => hist'.msgSent = hist.msgSent
          /\ errsClosed => hist'.errSent = hist.errSent]_vars

\* a finished run of all the workers with progress lines: four lines were
\* sent, msgs was closed and drained, and both sinks have signalled
C22_Witness ==
    /\ Done
    /\ cfg.verbosity > 0 /\ cfg.parallelTasks = MaxParallelTasks
    /\ Cardinality(DOMAIN hist.msgSent) = 4
    /\ msgsClosed /\ msgsDone /\ errsClosed /\ errsDone
    /\ msgs = <<>>

====
